---- MODULE Spec2Model ----
(***************************************************************************)
(* Model of the Blackjack exercise (challenges/c25): the Card/Deck/Hand    *)
(* types, Hand::evaluate, Deck::new/shuffle/deal and the game loop of      *)
(* main.  Three specifications share its variables:                        *)
(*   Spec      the game loop of main;                                      *)
(*   SpecEval  Hand::new / Hand::add_card / Hand::evaluate on any hand;    *)
(*   SpecDeck  Deck::new, an optional shuffle, then deal after deal, past  *)
(*             the exhaustion of the deck (the deck unit tests).           *)
(***************************************************************************)
EXTENDS Integers, Sequences, FiniteSets

VARIABLES
    deck,         \* Deck.cards: the last element is the top card
    player_hand,  \* Hand.cards of the player (of the hand under evaluation in SpecEval)
    dealer_hand,  \* Hand.cards of the dealer
    pc,           \* position in the running program
    outcome,      \* the announcement the game ended with
    dealt,        \* SpecDeck: what the last Deck::deal returned, <<>> = None, <<c>> = Some(c)
    deals,        \* SpecDeck: number of Deck::deal calls made so far
    score,        \* SpecEval: what the last Hand::evaluate returned, <<>> before any call
    locals        \* the other exercises: the local variables of the running program,
                  \* a record with one field per local (<<>> in the Blackjack specifications)

vars == <<deck, player_hand, dealer_hand, pc, outcome, dealt, deals, score, locals>>

\* The variables of the Blackjack exercise that the other exercises leave alone.
blackjack == <<deck, player_hand, dealer_hand, dealt, deals, score>>

(***************************************************************************)
(* Bounds of the model.                                                    *)
(***************************************************************************)
\* Number of leading swaps of a shuffle whose partner is drawn freely.
ShuffleSteps == 2

\* SpecEval: longest hand built from arbitrary ranks.
MaxHandLen == 4

\* SpecEval: most Aces in a hand of Aces plus at most one other card.
MaxAces == 4

\* SpecDeck: number of Deck::deal calls made on one deck (more than it holds).
MaxDeals == 54

(***************************************************************************)
(* Program constants and types.                                            *)
(***************************************************************************)
BLACKJACK == 21

Suite == <<"Hearts", "Diamonds", "Clubs", "Spades">>

Rank == <<"Ace", "Two", "Three", "Four", "Five", "Six", "Seven", "Eight",
          "Nine", "Ten", "Jack", "Queen", "King">>

Card(s, v) == [suit |-> s, value |-> v]

Range(seq) == {seq[i] : i \in 1..Len(seq)}

AllCards == {Card(s, v) : s \in Range(Suite), v \in Range(Rank)}

(***************************************************************************)
(* Deck                                                                    *)
(***************************************************************************)
\* Deck::new with the rank loop starting at Two.
DeckNewSkipsAce ==
    [i \in 1..(Len(Suite) * (Len(Rank) - 1)) |->
        Card(Suite[((i - 1) \div (Len(Rank) - 1)) + 1],
             Rank[((i - 1) % (Len(Rank) - 1)) + 2])]

\* Deck::new: for each suit in order, for each rank in order, push the card.
DeckNew ==
    [i \in 1..(Len(Suite) * Len(Rank)) |->
        Card(Suite[((i - 1) \div Len(Rank)) + 1], Rank[((i - 1) % Len(Rank)) + 1])]

\* A swap that copies cards[j] over cards[i] and never writes cards[i] back.
SwapOverwrites(cards, i, j) ==
    [k \in 1..Len(cards) |-> IF k = i THEN cards[j] ELSE cards[k]]

\* slice.swap(i, j).
Swap(cards, i, j) ==
    [k \in 1..Len(cards) |->
        IF k = i THEN cards[j] ELSE IF k = j THEN cards[i] ELSE cards[k]]

\* The random draws of one shuffle of len cards: the partner position of each
\* of its first n swaps (the swap at position i draws a partner in 1..i); the
\* swaps after them are taken to draw their own position.
ShuffleDraws(len, n) ==
    LET m == IF len - 1 < n THEN (IF len = 0 THEN 0 ELSE len - 1) ELSE n
    IN  {js \in [1..m -> 1..len] : \A t \in 1..m : js[t] <= len - t + 1}

\* The swaps of a shuffle from the t-th on: swap(i, js[t]) at i = len - t + 1.
RECURSIVE ShufflePass(_, _, _)
ShufflePass(cards, js, t) ==
    IF t > Len(js)
    THEN cards
    ELSE ShufflePass(Swap(cards, Len(cards) - t + 1, js[t]), js, t + 1)

\* Deck::shuffle, with the random draws js.
DeckShuffle(cards, js) == ShufflePass(cards, js, 1)

\* Deck::deal returning the top card without removing it (last().cloned()).
DeckDealPeek(cards) ==
    IF Len(cards) = 0
    THEN [card |-> <<>>, cards |-> cards]
    ELSE [card |-> <<cards[Len(cards)]>>, cards |-> cards]

\* Deck::deal taking the card from the bottom of the deck (remove(0)).
DeckDealBottom(cards) ==
    IF Len(cards) = 0
    THEN [card |-> <<>>, cards |-> cards]
    ELSE [card |-> <<cards[1]>>, cards |-> SubSeq(cards, 2, Len(cards))]

\* Deck::deal: Vec::pop.  The returned Option is <<>> (None) or <<card>>.
DeckDeal(cards) ==
    IF Len(cards) = 0
    THEN [card |-> <<>>, cards |-> cards]
    ELSE [card |-> <<cards[Len(cards)]>>, cards |-> SubSeq(cards, 1, Len(cards) - 1)]

(***************************************************************************)
(* Hand                                                                    *)
(***************************************************************************)
HandNew == <<>>

HandAddCard(cards, card) == Append(cards, card)

\* The match with the face cards worth their ordinal (Jack 11, Queen 12, King 13).
RankPointsOrdinal(v) ==
    CASE v = "Two" -> 2
      [] v = "Three" -> 3
      [] v = "Four" -> 4
      [] v = "Five" -> 5
      [] v = "Six" -> 6
      [] v = "Seven" -> 7
      [] v = "Eight" -> 8
      [] v = "Nine" -> 9
      [] v = "Ten" -> 10
      [] v = "Jack" -> 11
      [] v = "Queen" -> 12
      [] v = "King" -> 13
      [] OTHER -> 0

\* The match of the first pass: what one card adds to (sum, ace_count).
RankPoints(v) ==
    CASE v = "Two" -> 2
      [] v = "Three" -> 3
      [] v = "Four" -> 4
      [] v = "Five" -> 5
      [] v = "Six" -> 6
      [] v = "Seven" -> 7
      [] v = "Eight" -> 8
      [] v = "Nine" -> 9
      [] v \in {"Ten", "Jack", "Queen", "King"} -> 10
      [] OTHER -> 0

\* First pass: sum the non-Ace cards and count the Aces, in hand order.
RECURSIVE FirstPass(_, _, _, _)
FirstPass(cards, i, sum, ace_count) ==
    IF i > Len(cards)
    THEN [sum |-> sum, ace_count |-> ace_count]
    ELSE IF cards[i].value = "Ace"
         THEN FirstPass(cards, i + 1, sum, ace_count + 1)
         ELSE FirstPass(cards, i + 1, sum + RankPoints(cards[i].value), ace_count)

\* Second pass with `sum + 11 < 21`.
RECURSIVE SecondPassStrict(_, _)
SecondPassStrict(sum, n) ==
    IF n = 0
    THEN sum
    ELSE SecondPassStrict(IF sum + 11 < 21 THEN sum + 11 ELSE sum + 1, n - 1)

\* Second pass: for _ in 0..ace_count, add 11 when it fits and 1 otherwise.
RECURSIVE SecondPass(_, _)
SecondPass(sum, n) ==
    IF n = 0
    THEN sum
    ELSE SecondPass(IF sum + 11 <= 21 THEN sum + 11 ELSE sum + 1, n - 1)

\* Final check without the ace_count guard: while sum > 21 { sum -= 10 }.
RECURSIVE FinalCheckNoAceGuard(_, _)
FinalCheckNoAceGuard(sum, ace_count) ==
    IF sum > 21
    THEN FinalCheckNoAceGuard(sum - 10, ace_count - 1)
    ELSE sum

\* Final check: while sum > 21 && ace_count > 0 { sum -= 10; ace_count -= 1 }.
RECURSIVE FinalCheck(_, _)
FinalCheck(sum, ace_count) ==
    IF sum > 21 /\ ace_count > 0
    THEN FinalCheck(sum - 10, ace_count - 1)
    ELSE sum

\* Hand::evaluate.
HandEvaluate(cards) ==
    LET first == FirstPass(cards, 1, 0, 0)
    IN  FinalCheck(SecondPass(first.sum, first.ace_count), first.ace_count)

(***************************************************************************)
(* SpecEval: a hand is built card by card and evaluated.                   *)
(***************************************************************************)
AceCountOf(cards) == Cardinality({i \in 1..Len(cards) : cards[i].value = "Ace"})

\* The hands SpecEval builds: any ranks up to MaxHandLen cards, and up to
\* MaxAces Aces with at most one other card, in any order.
EvalMayAdd(cards, v) ==
    \/ Len(cards) < MaxHandLen
    \/ /\ Len(cards) - AceCountOf(cards) <= 1
       /\ IF v = "Ace"
          THEN AceCountOf(cards) < MaxAces
          ELSE Len(cards) = AceCountOf(cards)

\* The suit the unit tests give the i-th card of a hand.
EvalSuit(i) == Suite[((i - 1) % Len(Suite)) + 1]

InitEval ==
    /\ player_hand = HandNew
    /\ score = <<>>
    /\ pc = "eval"
    /\ deck = <<>>
    /\ dealer_hand = <<>>
    /\ outcome = "none"
    /\ dealt = <<>>
    /\ deals = 0
    /\ locals = <<>>

EvalAddCard ==
    \E v \in Range(Rank) :
        /\ EvalMayAdd(player_hand, v)
        /\ player_hand' = HandAddCard(player_hand, Card(EvalSuit(Len(player_hand) + 1), v))
        /\ score' = <<>>
        /\ UNCHANGED <<deck, dealer_hand, pc, outcome, dealt, deals, locals>>

EvalEvaluate ==
    /\ score = <<>>
    /\ score' = <<HandEvaluate(player_hand)>>
    /\ UNCHANGED <<deck, player_hand, dealer_hand, pc, outcome, dealt, deals, locals>>

NextEval == EvalAddCard \/ EvalEvaluate

SpecEval == InitEval /\ [][NextEval]_vars

(***************************************************************************)
(* Spec: the game loop of main.                                            *)
(***************************************************************************)
\* Before `let mut deck = Deck::new()`.
Init ==
    /\ pc = "new"
    /\ deck = <<>>
    /\ player_hand = <<>>
    /\ dealer_hand = <<>>
    /\ outcome = "none"
    /\ dealt = <<>>
    /\ deals = 0
    /\ score = <<>>
    /\ locals = <<>>

\* let mut deck = Deck::new();
MainNew ==
    /\ pc = "new"
    /\ deck' = DeckNew
    /\ pc' = "shuffle"
    /\ UNCHANGED <<player_hand, dealer_hand, outcome, dealt, deals, score, locals>>

\* deck.shuffle();
MainShuffle ==
    /\ pc = "shuffle"
    /\ \E js \in ShuffleDraws(Len(deck), ShuffleSteps) : deck' = DeckShuffle(deck, js)
    /\ pc' = "deal"
    /\ UNCHANGED <<player_hand, dealer_hand, outcome, dealt, deals, score, locals>>

\* hand.add_card(deck.deal().unwrap()), twice: the resulting hand and deck, or
\* a panic when the deck runs out.
DealTwo(hand, cards) ==
    LET d1 == DeckDeal(cards)
        d2 == DeckDeal(d1.cards)
    IN  IF d1.card = <<>>
        THEN [panic |-> TRUE, hand |-> hand, cards |-> d1.cards]
        ELSE IF d2.card = <<>>
             THEN [panic |-> TRUE, hand |-> HandAddCard(hand, d1.card[1]), cards |-> d2.cards]
             ELSE [panic |-> FALSE,
                   hand |-> HandAddCard(HandAddCard(hand, d1.card[1]), d2.card[1]),
                   cards |-> d2.cards]

\* let mut player_hand = Hand::new(); and its two cards.
MainDeal ==
    /\ pc = "deal"
    /\ LET r == DealTwo(HandNew, deck)
       IN  /\ player_hand' = r.hand
           /\ deck' = r.cards
           /\ pc' = IF r.panic THEN "done" ELSE "player_turn"
           /\ outcome' = IF r.panic THEN "panic" ELSE outcome
    /\ UNCHANGED <<dealer_hand, dealt, deals, score, locals>>

\* The Stand arm with the scores compared the other way round.
CompareSwapped(player_score, dealer_score) ==
    IF dealer_score < player_score THEN "lose"
    ELSE IF player_score = dealer_score THEN "tie"
    ELSE "win"

\* The announcement of the Stand arm: player_score.cmp(&dealer_score).
Compare(player_score, dealer_score) ==
    IF player_score < dealer_score THEN "lose"
    ELSE IF player_score = dealer_score THEN "tie"
    ELSE "win"

\* prompt_for_move returned Move::Stand.
MainStand ==
    /\ pc = "player_turn"
    /\ LET r == DealTwo(HandNew, deck)
       IN  /\ dealer_hand' = r.hand
           /\ deck' = r.cards
           /\ outcome' = IF r.panic
                         THEN "panic"
                         ELSE Compare(HandEvaluate(player_hand), HandEvaluate(r.hand))
    /\ pc' = "done"
    /\ UNCHANGED <<player_hand, dealt, deals, score, locals>>

\* prompt_for_move returned Move::Hit.
MainHit ==
    /\ pc = "player_turn"
    /\ LET d == DeckDeal(deck)
       IN  IF d.card # <<>>
           THEN LET hand == HandAddCard(player_hand, d.card[1])
                IN  /\ player_hand' = hand
                    /\ deck' = d.cards
                    /\ IF HandEvaluate(hand) > BLACKJACK
                       THEN pc' = "done" /\ outcome' = "bust"
                       ELSE pc' = "player_turn" /\ outcome' = outcome
           ELSE /\ pc' = "done"
                /\ outcome' = "no_cards"
                /\ UNCHANGED <<player_hand, deck>>
    /\ UNCHANGED <<dealer_hand, dealt, deals, score, locals>>

Next == MainNew \/ MainShuffle \/ MainDeal \/ MainStand \/ MainHit

Spec == Init /\ [][Next]_vars

(***************************************************************************)
(* SpecDeck: Deck::new, an optional shuffle, then deal after deal.         *)
(***************************************************************************)
InitDeck ==
    /\ pc = "start"
    /\ deck = <<>>
    /\ dealt = <<>>
    /\ deals = 0
    /\ player_hand = <<>>
    /\ dealer_hand = <<>>
    /\ outcome = "none"
    /\ score = <<>>
    /\ locals = <<>>

\* let mut deck = Deck::new();
DeckOpNew ==
    /\ pc = "start"
    /\ deck' = DeckNew
    /\ pc' = "fresh"
    /\ UNCHANGED <<player_hand, dealer_hand, outcome, dealt, deals, score, locals>>

\* deck.shuffle() on the fresh deck.
DeckOpShuffle ==
    /\ pc = "fresh"
    /\ \E js \in ShuffleDraws(Len(deck), ShuffleSteps) : deck' = DeckShuffle(deck, js)
    /\ pc' = "dealing"
    /\ UNCHANGED <<player_hand, dealer_hand, outcome, dealt, deals, score, locals>>

\* deck.deal(), also on the exhausted deck.
DeckOpDeal ==
    /\ pc \in {"fresh", "dealing"}
    /\ deals < MaxDeals
    /\ LET d == DeckDeal(deck)
       IN  /\ dealt' = d.card
           /\ deck' = d.cards
    /\ deals' = deals + 1
    /\ pc' = "dealing"
    /\ UNCHANGED <<player_hand, dealer_hand, outcome, score, locals>>

NextDeck == DeckOpNew \/ DeckOpShuffle \/ DeckOpDeal

SpecDeck == InitDeck /\ [][NextDeck]_vars

(***************************************************************************)
(* Blackjack scoring, stated from the rules rather than from the code.     *)
(***************************************************************************)
\* Position of a rank in Ace, Two, ..., King.
RankIndex(v) == CHOOSE i \in 1..Len(Rank) : Rank[i] = v

\* The fixed value of a non-Ace rank: its face value, 10 for Ten and above.
FixedValue(v) == IF RankIndex(v) > 10 THEN 10 ELSE RankIndex(v)

RECURSIVE SumAt(_, _)
SumAt(cards, idx) ==
    IF idx = {}
    THEN 0
    ELSE LET i == CHOOSE x \in idx : TRUE
         IN  FixedValue(cards[i].value) + SumAt(cards, idx \ {i})

\* s: the sum of the non-Ace cards.
NonAceSum(cards) == SumAt(cards, {i \in 1..Len(cards) : cards[i].value # "Ace"})

\* The total with every Ace counted as 1.
HardTotal(cards) == NonAceSum(cards) + AceCountOf(cards)

SetMax(S) == CHOOSE x \in S : \A y \in S : y <= x

\* The greatest total s + k + 10*j (0 <= j <= k) not above 21, or s + k.
StandardScore(cards) ==
    LET fits == {t \in {HardTotal(cards) + 10 * j : j \in 0..AceCountOf(cards)} : t <= 21}
    IN  IF fits = {} THEN HardTotal(cards) ELSE SetMax(fits)

Evaluated == pc = "eval" /\ score # <<>>

(***************************************************************************)
(* Claims about Hand::evaluate (SpecEval).                                 *)
(***************************************************************************)
\* C1 (as claimed): for every hand, Hand::evaluate returns the standard
\* Blackjack score: the greatest total with j of the k Aces counted as 11
\* that does not exceed 21, or the total with every Ace counted as 1.
C1_EvaluateIsStandardScore ==
    Evaluated => score[1] = StandardScore(player_hand)

\* C3 (as claimed): a hand with exactly one Ace whose other cards sum to more
\* than 10 evaluates to (sum of the other cards) + 1.
C3_SingleAceCountsAsOne ==
    (Evaluated /\ AceCountOf(player_hand) = 1 /\ NonAceSum(player_hand) > 10)
        => score[1] = NonAceSum(player_hand) + 1

FourAcesAndAKing ==
    /\ Len(player_hand) = 5
    /\ AceCountOf(player_hand) = 4
    /\ \E i \in 1..5 : player_hand[i].value = "King"

\* C4 (as claimed): four Aces plus a King evaluate to 13.
C4_FourAcesKingIs13 ==
    (Evaluated /\ FourAcesAndAKing) => score[1] = 13

\* C4 (amended): four Aces plus a King evaluate to 14, every Ace being
\* counted as 1.
C4_FourAcesKingIs14 ==
    (Evaluated /\ FourAcesAndAKing) => score[1] = 14

C4_Witness == Evaluated /\ FourAcesAndAKing /\ score = <<14>>

\* C5: a hand with no Ace, the empty hand included, evaluates to the plain
\* sum of its cards' fixed values, also when that sum exceeds 21.
C5_NoAceIsPlainSum ==
    (Evaluated /\ AceCountOf(player_hand) = 0)
        => score[1] = NonAceSum(player_hand)

C5_Witness ==
    /\ Evaluated
    /\ AceCountOf(player_hand) = 0
    /\ NonAceSum(player_hand) > 21
    /\ score[1] = NonAceSum(player_hand)

\* C6: a hand with exactly one Ace whose other cards sum to at most 10
\* evaluates to (sum of the other cards) + 11.
C6_SingleAceCountsAsEleven ==
    (Evaluated /\ AceCountOf(player_hand) = 1 /\ NonAceSum(player_hand) <= 10)
        => score[1] = NonAceSum(player_hand) + 11

C6_Witness ==
    /\ Evaluated
    /\ AceCountOf(player_hand) = 1
    /\ NonAceSum(player_hand) = 10
    /\ score = <<21>>

(***************************************************************************)
(* Claims about the game (Spec).                                           *)
(***************************************************************************)
\* C2 (as claimed): once a Hit has taken the player's total above 21 with
\* every Ace counted as 1, the game is over as a bust: no further prompt, no
\* dealer hand, no win or tie.
C2_BustOnHitResolvesGame ==
    HardTotal(player_hand) > 21
        => (pc = "done" /\ outcome = "bust" /\ dealer_hand = <<>>)

Stood == pc = "done" /\ Len(dealer_hand) = 2

\* C7: when the player stands, the announcement is win iff the player's
\* evaluate() score is strictly higher than the dealer's, tie iff the scores
\* are equal, and loss iff it is strictly lower; neither is announced
\* otherwise.
C7_StandComparesScores ==
    LET p == HandEvaluate(player_hand)
        d == HandEvaluate(dealer_hand)
    IN  /\ Stood => /\ outcome \in {"win", "tie", "lose"}
                    /\ outcome = "win" <=> p > d
                    /\ outcome = "tie" <=> p = d
                    /\ outcome = "lose" <=> p < d
        /\ outcome \in {"win", "tie", "lose"} => Stood

C7_Witness ==
    /\ Stood
    /\ outcome = "win"
    /\ Len(player_hand) > 2
    /\ HandEvaluate(player_hand) > HandEvaluate(dealer_hand)

\* C8: once the deck is built, each of the 52 cards is in exactly one of the
\* deck, the player's hand and the dealer's hand: the three together hold 52
\* cards, every card of the 52 among them, and no two share a card.
C8_CardsArePartitioned ==
    pc # "new" =>
        LET all == deck \o player_hand \o dealer_hand
        IN  /\ Len(all) = 52
            /\ Cardinality(AllCards) = 52
            /\ Range(all) = AllCards
            /\ Range(deck) \cap Range(player_hand) = {}
            /\ Range(deck) \cap Range(dealer_hand) = {}
            /\ Range(player_hand) \cap Range(dealer_hand) = {}

C8_Witness ==
    /\ Stood
    /\ Len(player_hand) > 2
    /\ Len(deck) + Len(player_hand) + Len(dealer_hand) = 52

(***************************************************************************)
(* Claims about the deck (SpecDeck).                                       *)
(***************************************************************************)
\* C9: Deck::new yields exactly 52 cards, pairwise distinct, one for each of
\* the 4 suits x 13 ranks.
C9_NewDeckIsComplete ==
    pc = "fresh" =>
        /\ Len(deck) = 52
        /\ \A i, j \in 1..Len(deck) : i # j => deck[i] # deck[j]
        /\ Cardinality(Range(Suite)) = 4
        /\ Cardinality(Range(Rank)) = 13
        /\ \A s \in Range(Suite), v \in Range(Rank) :
              \E i \in 1..Len(deck) : deck[i] = Card(s, v)

C9_Witness == pc = "fresh" /\ deals = 0 /\ Len(deck) = 52

\* C10: a deal splits the deck into the remaining cards, in their order, and
\* the returned top card; on an empty deck it returns None and leaves the deck
\* empty, on every call.
C10_DealPopsTop ==
    [][deals' = deals + 1 =>
          /\ deck' \o dealt' = deck
          /\ Len(dealt') = IF deck = <<>> THEN 0 ELSE 1]_vars

C10_Witness == deals >= 54 /\ deck = <<>> /\ dealt = <<>>

(***************************************************************************)
(* Claims about Deck::shuffle (Spec).                                      *)
(***************************************************************************)
\* C11: Deck::shuffle changes only the order of the deck's cards: the deck
\* holds the same number of cards and the same set of cards after the call
\* as before it, and no hand changes.
C11_ShuffleKeepsCards ==
    [][pc = "shuffle" =>
          /\ Len(deck') = Len(deck)
          /\ Range(deck') = Range(deck)
          /\ player_hand' = player_hand
          /\ dealer_hand' = dealer_hand]_vars

C11_Witness ==
    /\ pc = "deal"
    /\ deck # DeckNew
    /\ Len(deck) = 52
    /\ Range(deck) = AllCards

(***************************************************************************)
(* The ASCII Caesar cipher (challenges/c19): shift_char.                   *)
(* A char is its code point.  SpecCaesar calls shift_char once on each     *)
(* character and shift of its input sets.                                  *)
(***************************************************************************)
\* SpecCaesar: the shifts tried lie within ShiftSpan of 0, of i32::MIN and of
\* i32::MAX.
ShiftSpan == 129

I32_MAX == 2147483647

I32_MIN == -I32_MAX - 1

ASCII_ALPHABET_LEN == 128

\* char::is_ascii.
IsAscii(c) == c >= 0 /\ c <= 127

\* The characters tried: all of ASCII, and the non-ASCII ones of the unit tests.
CaesarChars == (0..127) \cup {233, 241, 26085}

CaesarShifts ==
    ((-ShiftSpan)..ShiftSpan)
        \cup {I32_MIN + k : k \in 0..ShiftSpan}
        \cup {I32_MAX - k : k \in 0..ShiftSpan}

\* pos + shift on i32 when the sum exceeds i32::MAX, wrapped (pos + shift - 2^32),
\* computed without leaving the 32-bit range.
WrappingAdd(pos, shift) == (shift - I32_MAX) + (pos - I32_MAX) - 2

\* char::from_u32(u).unwrap_or(c): None for a surrogate or a value above 0x10FFFF.
FromU32OrElse(u, c) ==
    IF (u >= 55296 /\ u <= 57343) \/ u > 1114111 THEN c ELSE u

\* shift_char: what a call can do.  `pos + shift` overflows i32 when
\* shift > i32::MAX - pos: a build with overflow checks panics there, a build
\* without them wraps the sum.
ShiftChar(c, shift) ==
    IF ~IsAscii(c)
    THEN {[panic |-> FALSE, char |-> c]}
    ELSE IF shift > I32_MAX - c
         THEN {[panic |-> TRUE, char |-> c],
               [panic |-> FALSE,
                char |-> FromU32OrElse(WrappingAdd(c, shift) % ASCII_ALPHABET_LEN, c)]}
         ELSE {[panic |-> FALSE,
                char |-> FromU32OrElse((c + shift) % ASCII_ALPHABET_LEN, c)]}

InitCaesar ==
    /\ pc = "shift_char"
    /\ outcome = "none"
    /\ \E c \in CaesarChars, shift \in CaesarShifts :
          locals = [c |-> c, shift |-> shift, result |-> <<>>]
    /\ deck = <<>>
    /\ player_hand = <<>>
    /\ dealer_hand = <<>>
    /\ dealt = <<>>
    /\ deals = 0
    /\ score = <<>>

\* shift_char(c, shift) returns or panics.
CaesarShiftChar ==
    /\ pc = "shift_char"
    /\ \E r \in ShiftChar(locals.c, locals.shift) :
          IF r.panic
          THEN pc' = "panicked" /\ locals' = locals
          ELSE pc' = "returned" /\ locals' = [locals EXCEPT !.result = <<r.char>>]
    /\ UNCHANGED <<outcome, blackjack>>

NextCaesar == CaesarShiftChar

SpecCaesar == InitCaesar /\ [][NextCaesar]_vars

\* (code(c) + shift) mod 128, from the residues of the two terms.
ShiftedCode(c, shift) ==
    ((c % 128) + (shift % 128)) % 128

\* C12 (as claimed): for every ASCII character and every i32 shift,
\* shift_char neither overflows nor panics and returns the character with code
\* (code(c) + shift) mod 128; a non-ASCII character is returned unchanged.
C12_ShiftCharIsTotal ==
    pc \in {"returned", "panicked"} =>
        /\ pc = "returned"
        /\ locals.result =
              <<IF IsAscii(locals.c) THEN ShiftedCode(locals.c, locals.shift) ELSE locals.c>>

(***************************************************************************)
(* Input handling of the speed calculator (c4), the factor calculator      *)
(* (challenges/c12) and the sports results tracker (challenges/c24).       *)
(* A line of input is a token: [numeric |-> TRUE, value |-> n] is the text *)
(* of the number n, [numeric |-> FALSE, ...] is text that is no number.    *)
(* In locals, `malformed` tells whether the input just read was malformed  *)
(* and `handled` what the program did with it: "accepted", "reprompt" (the *)
(* prompt asked again), "propagated" (the prompt returned an Err to main)  *)
(* or "reported" (main printed the error); pc tells whether the run went   *)
(* on or ended.                                                            *)
(***************************************************************************)
\* Largest number a token holds.
MaxNumber == 6

\* SpecInput, SpecTracker: most results the tracker stores.
MaxResults == 2

MAX_ITERATIONS == 20

\* What counts as malformed input: text that is no number or a number out of
\* the range asked for, and a menu choice that is not on the menu.
NotPositiveNumber(tok) == ~tok.numeric \/ tok.value <= 0

NotUnsignedNumber(tok) == ~tok.numeric \/ tok.value < 0

NotOneOrTwo(line) == line \notin {"1", "2"}

NumberTokens ==
    {[numeric |-> TRUE, value |-> n] : n \in (-1)..MaxNumber}
        \cup {[numeric |-> FALSE, value |-> 0]}

\* str::parse::<f64>: <<>> is Err, <<v>> is Ok(v).
ParseF64(tok) == IF tok.numeric THEN <<tok.value>> ELSE <<>>

\* str::parse::<u64> and str::parse::<u32>: no sign is accepted.
ParseUnsigned(tok) == IF tok.numeric /\ tok.value >= 0 THEN <<tok.value>> ELSE <<>>

\* prompt_for_param without the `value <= 0.0` check.
PromptForParamAnySign(tok) == ParseF64(tok)

\* c4 prompt_for_param: <<>> is Err (no number, or not positive), <<v>> is Ok(v).
PromptForParam(tok) ==
    LET value == ParseF64(tok)
    IN  IF value = <<>> THEN <<>>
        ELSE IF value[1] <= 0 THEN <<>>
        ELSE value

\* c4 calculate_query: the value as a fraction num / den, and the unit.
CalculateQuery(query) ==
    IF query.kind = "Distance"
    THEN [num |-> query.first * query.time_hr, den |-> 1, unit |-> "miles"]
    ELSE [num |-> query.first, den |-> query.time_hr, unit |-> "mph"]

\* Before prompt_for_query reads the query type.
InitSpeed ==
    /\ pc = "c4_query"
    /\ locals = [prog |-> "c4", malformed |-> FALSE, handled |-> "none",
                 query_type |-> "", first |-> 0, result |-> <<>>]

\* c4 prompt_for_query reads the query type; anything but 1 or 2 is an Err,
\* which main answers with exit(1).
SpeedQueryType ==
    /\ pc = "c4_query"
    /\ \E line \in {"1", "2", "3"} :
          IF line \in {"1", "2"}
          THEN /\ pc' = "c4_param1"
               /\ locals' = [locals EXCEPT !.query_type = line, !.handled = "accepted",
                                           !.malformed = NotOneOrTwo(line)]
          ELSE /\ pc' = "c4_exit_1"
               /\ locals' = [locals EXCEPT !.handled = "propagated",
                                           !.malformed = NotOneOrTwo(line)]
    /\ UNCHANGED <<outcome, blackjack>>

\* c4 prompt_for_param for the speed or the distance.
SpeedFirstParam ==
    /\ pc = "c4_param1"
    /\ \E tok \in NumberTokens :
          LET value == PromptForParam(tok)
          IN  IF value # <<>>
              THEN /\ pc' = "c4_param2"
                   /\ locals' = [locals EXCEPT !.first = value[1], !.handled = "accepted",
                                               !.malformed = NotPositiveNumber(tok)]
              ELSE /\ pc' = "c4_exit_1"
                   /\ locals' = [locals EXCEPT !.handled = "propagated",
                                               !.malformed = NotPositiveNumber(tok)]
    /\ UNCHANGED <<outcome, blackjack>>

\* c4 prompt_for_param for the time, then calculate_query and the result line.
SpeedTimeParam ==
    /\ pc = "c4_param2"
    /\ \E tok \in NumberTokens :
          LET value == PromptForParam(tok)
          IN  IF value # <<>>
              THEN /\ pc' = "c4_done"
                   /\ locals' =
                         [locals EXCEPT
                             !.result = <<CalculateQuery(
                                 [kind |-> IF locals.query_type = "1" THEN "Distance" ELSE "Speed",
                                  first |-> locals.first, time_hr |-> value[1]])>>,
                             !.handled = "accepted",
                             !.malformed = NotPositiveNumber(tok)]
              ELSE /\ pc' = "c4_exit_1"
                   /\ locals' = [locals EXCEPT !.handled = "propagated",
                                               !.malformed = NotPositiveNumber(tok)]
    /\ UNCHANGED <<outcome, blackjack>>

(***************************************************************************)
(* The factor calculator (challenges/c12).                                 *)
(***************************************************************************)
\* (n as f64).sqrt() as u64.
Isqrt(n) == CHOOSE r \in 0..n : r * r <= n /\ (r + 1) * (r + 1) > n

RECURSIVE SortedSeq(_)
SortedSeq(S) ==
    IF S = {}
    THEN <<>>
    ELSE LET least == CHOOSE x \in S : \A y \in S : x <= y
         IN  <<least>> \o SortedSeq(S \ {least})

\* factors: i and n / i for each divisor i up to the square root, sorted.
Factors(n) ==
    SortedSeq(UNION {{i, n \div i} : i \in {d \in 1..Isqrt(n) : n % d = 0}})

\* primal::is_prime.
IsPrime(n) == n >= 2 /\ \A d \in 2..(n - 1) : n % d # 0

InitFactors ==
    /\ pc = "c12_read"
    /\ locals = [prog |-> "c12", malformed |-> FALSE, handled |-> "none", output |-> <<>>]

\* c12 main: read the line, parse it as u64; print the error and return, or
\* print the factors.
FactorsMain ==
    /\ pc = "c12_read"
    /\ \E tok \in NumberTokens :
          LET input == ParseUnsigned(tok)
          IN  IF input = <<>>
              THEN /\ pc' = "c12_returned"
                   /\ locals' = [locals EXCEPT !.handled = "reported",
                                               !.malformed = NotUnsignedNumber(tok)]
              ELSE /\ pc' = "c12_done"
                   /\ locals' =
                         [locals EXCEPT
                             !.output = IF IsPrime(input[1])
                                        THEN <<"prime", <<1, input[1]>>>>
                                        ELSE <<"factors", Factors(input[1])>>,
                             !.handled = "accepted",
                             !.malformed = NotUnsignedNumber(tok)]
    /\ UNCHANGED <<outcome, blackjack>>

(***************************************************************************)
(* The sports results tracker (challenges/c24).                            *)
(***************************************************************************)
Teams == {"Ajax", "Boca"}

\* The score lines typed: no number, -1, 0 and 1.
ScoreTokens == {tok \in NumberTokens : tok.value <= 1}

\* prompt_for_result: <<>> is the Err of the first score that does not parse,
\* <<r>> is Ok(r).
PromptForResult(home_team, home_tok, away_team, away_tok) ==
    LET home_score == ParseUnsigned(home_tok)
        away_score == ParseUnsigned(away_tok)
    IN  IF home_score = <<>> THEN <<>>
        ELSE IF away_score = <<>> THEN <<>>
        ELSE <<[home_team |-> home_team, home_score |-> home_score[1],
                away_team |-> away_team, away_score |-> away_score[1]]>>

\* filter(|r| r.home_team == query), a search that forgets the away team.
SearchResultsHomeOnly(results, query) ==
    LET Matches(r) == r.home_team = query
    IN  SelectSeq(results, Matches)

\* The results a search prints: filter(|r| r.home_team == query || r.away_team == query).
SearchResults(results, query) ==
    LET Matches(r) == r.home_team = query \/ r.away_team = query
    IN  SelectSeq(results, Matches)

\* let mut results = Vec::new(), before the first menu prompt.
InitTracker ==
    /\ pc = "c24_menu"
    /\ locals = [prog |-> "c24", malformed |-> FALSE, handled |-> "none",
                 results |-> <<>>, iteration |-> 0, query |-> "", shown |-> <<>>]

\* The end of one pass of `for _ in 0..MAX_ITERATIONS`.
TrackerNextPc(iteration) ==
    IF iteration + 1 < MAX_ITERATIONS THEN "c24_menu" ELSE "c24_done"

\* prompt_for_menu_opt reads a line that is neither 1 nor 2 and asks again.
TrackerInvalidMenu ==
    /\ pc = "c24_menu"
    /\ \E line \in {"3"} :
          locals' = [locals EXCEPT !.handled = "reprompt", !.malformed = NotOneOrTwo(line)]
    /\ UNCHANGED <<pc, outcome, blackjack>>

\* Menu choice 1: prompt_for_result, then push the result or print the error.
TrackerAdd ==
    /\ pc = "c24_menu"
    /\ \E home_team \in Teams, away_team \in Teams, home_tok \in ScoreTokens,
          away_tok \in ScoreTokens :
          LET result == PromptForResult(home_team, home_tok, away_team, away_tok)
              bad == NotUnsignedNumber(home_tok) \/ NotUnsignedNumber(away_tok)
          IN  IF result # <<>>
              THEN /\ Len(locals.results) < MaxResults
                   /\ locals' = [locals EXCEPT !.results = Append(@, result[1]),
                                               !.iteration = @ + 1,
                                               !.query = "", !.shown = <<>>,
                                               !.handled = "accepted", !.malformed = bad]
              ELSE locals' = [locals EXCEPT !.iteration = @ + 1,
                                            !.query = "", !.shown = <<>>,
                                            !.handled = "propagated", !.malformed = bad]
    /\ pc' = TrackerNextPc(locals.iteration)
    /\ UNCHANGED <<outcome, blackjack>>

\* Menu choice 2: prompt_for_query, then print the matching results.
TrackerSearch ==
    /\ pc = "c24_menu"
    /\ \E query \in Teams \cup {"Cruz"} :
          locals' = [locals EXCEPT !.iteration = @ + 1,
                                   !.query = query,
                                   !.shown = SearchResults(locals.results, query),
                                   !.handled = "accepted", !.malformed = FALSE]
    /\ pc' = TrackerNextPc(locals.iteration)
    /\ UNCHANGED <<outcome, blackjack>>

(***************************************************************************)
(* SpecInput: one run of any of the three programs.                        *)
(***************************************************************************)
BlackjackIdle ==
    /\ deck = <<>>
    /\ player_hand = <<>>
    /\ dealer_hand = <<>>
    /\ dealt = <<>>
    /\ deals = 0
    /\ score = <<>>

InitInput ==
    /\ InitSpeed \/ InitFactors \/ InitTracker
    /\ outcome = "none"
    /\ BlackjackIdle

NextInput ==
    \/ SpeedQueryType
    \/ SpeedFirstParam
    \/ SpeedTimeParam
    \/ FactorsMain
    \/ TrackerInvalidMenu
    \/ TrackerAdd
    \/ TrackerSearch

SpecInput == InitInput /\ [][NextInput]_vars

RunEnded == pc \in {"c4_exit_1", "c4_done", "c12_returned", "c12_done", "c24_done"}

MaxTypingRounds == 4
MaxElapsed == 2

ALPHABET ==
    <<"a", "b", "c", "d", "e", "f", "g", "h", "i", "j", "k", "l", "m",
      "n", "o", "p", "q", "r", "s", "t", "u", "v", "w", "x", "y", "z">>

UpperAlphabet ==
    <<"A", "B", "C", "D", "E", "F", "G", "H", "I", "J", "K", "L", "M",
      "N", "O", "P", "Q", "R", "S", "T", "U", "V", "W", "X", "Y", "Z">>

IsWhitespace(c) == c \in {" ", "\n", "\t", "\r"}

\* str::trim: the slice without leading and trailing whitespace.
Trim(s) ==
    LET Inner == {i \in 1..Len(s) : ~IsWhitespace(s[i])}
    IN  IF Inner = {} THEN <<>>
        ELSE LET first == CHOOSE i \in Inner : \A j \in Inner : i <= j
                 last == CHOOSE i \in Inner : \A j \in Inner : j <= i
             IN  SubSeq(s, first, last)

ToLowercaseChar(c) ==
    IF \E i \in 1..26 : UpperAlphabet[i] = c
    THEN ALPHABET[CHOOSE i \in 1..26 : UpperAlphabet[i] = c]
    ELSE c

ToLowercase(s) == [i \in 1..Len(s) |-> ToLowercaseChar(s[i])]

is_valid_alphabet(input) == ToLowercase(Trim(input)) = ALPHABET

\* The lines typed as an attempt, each with its newline.
AttemptLines ==
    { ALPHABET \o <<"\n">>,
      <<" ">> \o UpperAlphabet \o <<" ", "\n">>,
      <<"a", "b", "c", "\n">>,
      <<"q", "\n">>,
      <<"\n">> }

\* The lines typed at the "play again" prompt: 'q' or just Enter.
AgainLines == { <<"q", "\n">>, <<"\n">> }

\* f64::INFINITY is <<>>, a finite time t is <<t>>.
INFINITY == <<>>

F64Min(best, t) == IF best = INFINITY \/ t < best[1] THEN <<t>> ELSE best

\* main up to the first "Start typing" prompt.
InitTyping ==
    /\ pc = "c7_attempt"
    /\ locals = [prog |-> "c7", input |-> <<>>, best_time |-> INFINITY,
                 rounds |-> 0, any_valid |-> FALSE, answer |-> <<>>,
                 reported |-> INFINITY]
    /\ outcome = "none"
    /\ BlackjackIdle

\* One attempt: a fresh String, read_line, the validity test and best_time.
TypingAttempt ==
    /\ pc = "c7_attempt"
    /\ locals.rounds < MaxTypingRounds
    /\ \E line \in AttemptLines, elapsed_time \in 1..MaxElapsed :
          LET input == <<>> \o line
          IN  locals' = [locals EXCEPT
                  !.input = input,
                  !.rounds = @ + 1,
                  !.answer = <<>>,
                  !.best_time = IF is_valid_alphabet(input)
                                THEN F64Min(@, elapsed_time) ELSE @,
                  !.any_valid = @ \/ (ToLowercase(Trim(line)) = ALPHABET)]
    /\ pc' = "c7_again"
    /\ UNCHANGED <<outcome, blackjack>>

\* The "play again" prompt: read_line appends to the attempt's String, the
\* loop ends when the whole buffer trims to "q", and the best time is printed
\* after the loop when it is finite.
TypingPlayAgain ==
    /\ pc = "c7_again"
    /\ \E line \in AgainLines :
          LET input == locals.input \o line
          IN  IF Trim(input) = <<"q">>
              THEN /\ pc' = "c7_done"
                   /\ locals' = [locals EXCEPT !.input = input, !.answer = line,
                                               !.reported = locals.best_time]
              ELSE /\ pc' = "c7_attempt"
                   /\ locals' = [locals EXCEPT !.input = input, !.answer = line]
    /\ UNCHANGED <<outcome, blackjack>>

NextTyping == TypingAttempt \/ TypingPlayAgain

SpecTyping == InitTyping /\ [][NextTyping]_vars

\* C14: at the "play again" prompt 'q' ends the loop, the best time being
\* reported whenever some attempt was a valid alphabet, and Enter starts
\* another attempt.
C14_QuitEndsGame ==
    [][pc = "c7_again" =>
          /\ locals'.answer = <<"q", "\n">> =>
                /\ pc' = "c7_done"
                /\ locals.any_valid => locals'.reported # INFINITY
          /\ locals'.answer = <<"\n">> => pc' = "c7_attempt"]_vars

(***************************************************************************)
(* The Higher-or-Lower game (challenges/c14).                              *)
(***************************************************************************)
LIMITS == <<1, 13>>
MAX_LIVES == 2
WINNING_SCORE == 10

Guess == {"Higher", "Lower"}

\* The test of main's inner loop: the guess names the direction of the move.
GuessIsCorrect(prev_num, num, guess) ==
    \/ num > prev_num /\ guess = "Higher"
    \/ num < prev_num /\ guess = "Lower"

\* main up to the first "Starting number".  streak and longest are the
\* current and the longest run of consecutive correct guesses of the life.
InitHigherLower ==
    /\ pc = "c14_guess"
    /\ \E prev_num \in LIMITS[1]..LIMITS[2] :
          locals = [prog |-> "c14", correct_guesses |-> 0, prev_num |-> prev_num,
                    lives |-> 0, round |-> 0, streak |-> 0, longest |-> 0,
                    result |-> "none"]
    /\ outcome = "none"
    /\ BlackjackIdle

\* One pass of the inner loop; after the last pass of a life, the test of the
\* score, the next life, and the final message when the outer loop is left.
HigherLowerGuess ==
    /\ pc = "c14_guess"
    /\ \E guess \in Guess, num \in LIMITS[1]..LIMITS[2] :
          LET correct == GuessIsCorrect(locals.prev_num, num, guess)
              correct_guesses == locals.correct_guesses + (IF correct THEN 1 ELSE 0)
              streak == IF (num # locals.prev_num) /\ ((num > locals.prev_num) <=> (guess = "Higher"))
                        THEN locals.streak + 1 ELSE 0
              longest == IF streak > locals.longest THEN streak ELSE locals.longest
              played == [locals EXCEPT !.correct_guesses = correct_guesses,
                                       !.prev_num = num,
                                       !.round = @ + 1,
                                       !.streak = streak,
                                       !.longest = longest]
          IN  IF locals.round + 1 < LIMITS[2]
              THEN /\ locals' = played
                   /\ pc' = "c14_guess"
              ELSE IF correct_guesses >= WINNING_SCORE
              THEN /\ locals' = [played EXCEPT !.result = "won"]
                   /\ pc' = "c14_done"
              ELSE IF locals.lives < MAX_LIVES - 1
              THEN /\ locals' = [played EXCEPT !.lives = @ + 1,
                                               !.correct_guesses = 0,
                                               !.round = 0,
                                               !.streak = 0,
                                               !.longest = 0]
                   /\ pc' = "c14_guess"
              ELSE /\ locals' = [played EXCEPT !.result = "lost"]
                   /\ pc' = "c14_done"
    /\ UNCHANGED <<outcome, blackjack>>

NextHigherLower == HigherLowerGuess

SpecHigherLower == InitHigherLower /\ [][NextHigherLower]_vars

\* C15: the player is declared the winner only after 10 correct guesses in
\* a row: a life whose longest run of consecutive correct guesses is below
\* 10 never wins.
C15_WinNeedsTenInARow ==
    (pc = "c14_done" /\ locals.result = "won") => locals.longest >= 10

(***************************************************************************)
(* The number guessing game, computer as guesser (challenges/c16).         *)
(***************************************************************************)
MaxAttempts == 8

GUESS_RNG == <<1, 100>>

GuessResult == {"TooLow", "TooHigh", "Correct"}

\* let guess = (left + right) / 2
Midpoint(left, right) == (left + right) \div 2

\* left = guess, a search that keeps the guess inside the interval.
LeftAfterTooLowKeepsGuess(guess) == guess

\* left = guess + 1
LeftAfterTooLow(guess) == guess + 1

\* right = guess - 1
RightAfterTooHigh(guess) == guess - 1

\* The answer an honest player gives for the number they thought of.
TruthfulFeedback(guess, secret) ==
    IF guess < secret THEN "TooLow"
    ELSE IF guess > secret THEN "TooHigh"
    ELSE "Correct"

\* computer_game_loop before the first guess.  secret is the number the
\* player thinks of; truthful says that every answer so far was honest;
\* guesses lists the guesses printed.
InitGuessing ==
    /\ pc = "c16_loop"
    /\ \E secret \in GUESS_RNG[1]..GUESS_RNG[2] :
          locals = [prog |-> "c16", secret |-> secret,
                    left |-> GUESS_RNG[1], right |-> GUESS_RNG[2],
                    num_attempts |-> 0, guesses |-> <<>>, truthful |-> TRUE,
                    reported |-> 0]
    /\ outcome = "none"
    /\ BlackjackIdle

\* One pass of the loop: the guess, the player's answer and the new interval;
\* on Correct the loop is left and the attempt count is printed.  With
\* guess = 0 (reached only through dishonest answers) `guess - 1` underflows
\* u64: the run panics with overflow checks and wraps without; the model
\* stops there.
ComputerGuess ==
    /\ pc = "c16_loop"
    /\ locals.num_attempts < MaxAttempts
    /\ \E feedback \in GuessResult :
          LET guess == Midpoint(locals.left, locals.right)
              asked == [locals EXCEPT
                          !.num_attempts = @ + 1,
                          !.guesses = Append(@, guess),
                          !.truthful = @ /\ feedback = TruthfulFeedback(guess, locals.secret)]
          IN  CASE feedback = "TooLow" ->
                     /\ locals' = [asked EXCEPT !.left = LeftAfterTooLow(guess)]
                     /\ pc' = "c16_loop"
                [] feedback = "TooHigh" ->
                     IF guess = 0
                     THEN /\ locals' = asked
                          /\ pc' = "c16_underflow"
                     ELSE /\ locals' = [asked EXCEPT !.right = RightAfterTooHigh(guess)]
                          /\ pc' = "c16_loop"
                [] feedback = "Correct" ->
                     /\ locals' = [asked EXCEPT !.reported = asked.num_attempts]
                     /\ pc' = "c16_done"
    /\ UNCHANGED <<outcome, blackjack>>

NextGuessing == ComputerGuess

SpecGuessing == InitGuessing /\ [][NextGuessing]_vars

\* C16: for every secret in 1..=100 and truthful answers, the binary search
\* has guessed the secret after at most 7 guesses, every guess lies in
\* 1..=100, and the reported attempt count is the number of guesses made.
C16_BinarySearchWithinSeven ==
    locals.truthful =>
        /\ Len(locals.guesses) <= 7
        /\ Len(locals.guesses) = 7 => pc = "c16_done"
        /\ \A i \in 1..Len(locals.guesses) : locals.guesses[i] \in 1..100
        /\ pc # "c16_underflow"
        /\ pc = "c16_done" =>
              /\ locals.guesses[Len(locals.guesses)] = locals.secret
              /\ locals.reported = Len(locals.guesses)

C16_Witness ==
    /\ pc = "c16_done"
    /\ locals.truthful
    /\ locals.secret = 100
    /\ locals.reported = 7

(***************************************************************************)
(* The subtraction game (challenges/c13).                                  *)
(***************************************************************************)
SubtractionLimits == <<1, 3>>

StartRange == <<20, 30>>

\* make_move_ai: the set of moves it can return.
make_move_ai(num) ==
    CASE num = 1 -> {1}
      [] num = 2 -> {1}
      [] num = 3 -> {2}
      [] OTHER -> 1..3

\* u64::saturating_sub
SaturatingSub(a, b) == IF a >= b THEN a - b ELSE 0

\* The message printed when the number reaches 0, with the two exchanged.
AnnounceSwapped(is_player_turn) == IF is_player_turn THEN "You won!" ELSE "You lost!"

\* The message printed when the number reaches 0.
Announce(is_player_turn) == IF is_player_turn THEN "You lost!" ELSE "You won!"

\* main up to the first "The current number is".  mover is who made the
\* last move, moves counts the moves made.
InitSubtraction ==
    /\ pc = "c13_loop"
    /\ \E num \in StartRange[1]..StartRange[2] :
          locals = [prog |-> "c13", num |-> num, is_player_turn |-> TRUE,
                    deduction |-> 0, mover |-> "none", moves |-> 0,
                    message |-> "none"]
    /\ outcome = "none"
    /\ BlackjackIdle

\* One pass of the loop: the move of whose turn it is, the subtraction, the
\* end of the game at 0, otherwise the change of turn.
SubtractionMove ==
    /\ pc = "c13_loop"
    /\ \E deduction \in IF locals.is_player_turn
                        THEN SubtractionLimits[1]..SubtractionLimits[2]
                        ELSE make_move_ai(locals.num) :
          LET num == SaturatingSub(locals.num, deduction)
              moved == [locals EXCEPT
                          !.num = num,
                          !.deduction = deduction,
                          !.mover = IF locals.is_player_turn THEN "human" ELSE "computer",
                          !.moves = @ + 1]
          IN  IF num = 0
              THEN /\ locals' = [moved EXCEPT !.message = Announce(locals.is_player_turn)]
                   /\ pc' = "c13_done"
              ELSE /\ locals' = [moved EXCEPT !.is_player_turn = ~@]
                   /\ pc' = "c13_loop"
    /\ UNCHANGED <<outcome, blackjack>>

NextSubtraction == SubtractionMove

SpecSubtraction == InitSubtraction /\ [][NextSubtraction]_vars

\* C17: turns strictly alternate starting with the human, each move removes
\* 1 to 3, the game ends exactly at the first move that leaves the number at
\* 0, and who made that move is declared the loser.
C17_SubtractionGameRules ==
    [][/\ locals.prog = "c13"
       /\ locals.num > 0
       /\ locals'.mover = (IF locals.moves % 2 = 0 THEN "human" ELSE "computer")
       /\ locals'.mover # locals.mover
       /\ (locals.num - locals'.num) \in 1..3
       /\ (pc' = "c13_done") <=> (locals'.num = 0)
       /\ locals'.num = 0 =>
             locals'.message = (IF locals'.mover = "human" THEN "You lost!" ELSE "You won!")
       /\ locals'.num > 0 => locals'.message = "none"]_vars

C17_Witness ==
    /\ pc = "c13_done"
    /\ locals.mover = "computer"
    /\ locals.message = "You won!"
    /\ locals.num = 0
    /\ locals.moves > 7

(***************************************************************************)
(* Mastermind (challenges/c26).  A String is a sequence of chars; a char   *)
(* is a one-character string, or the name of its code point when it takes *)
(* two bytes in UTF-8.                                                     *)
(***************************************************************************)
MaxDigit == 2
MaxCodeLen == 3

CODE_LENGTH == 4
MAX_GUESSES == 12

DecimalDigits == <<"0", "1", "2", "3", "4", "5", "6", "7", "8", "9">>

\* U+00BD is the vulgar fraction one half; U+00E9 and U+00C9 are the small
\* and the capital e with acute.
TwoByteChars == {"U+00BD", "U+00E9", "U+00C9"}

Utf8Len(c) == IF c \in TwoByteChars THEN 2 ELSE 1

\* str::len: the length in bytes.
RECURSIVE ByteLen(_)
ByteLen(s) == IF s = <<>> THEN 0 ELSE Utf8Len(Head(s)) + ByteLen(Tail(s))

\* char::is_numeric: the Unicode categories Nd, Nl and No.
IsNumericChar(c) == c \in Range(DecimalDigits) \cup {"U+00BD"}

\* The digits generate_code draws from, cut to 0..MaxDigit.
CodeDigits == {DecimalDigits[d + 1] : d \in 0..MaxDigit}

\* The strings of n code digits.
Codes(n) == [1..n -> CodeDigits]

\* Pass 1 of evaluate_guess: the fold over guess.chars().zip(target.chars()).
RECURSIVE ZipFold(_, _, _)
ZipFold(guess, target, acc) ==
    IF guess = <<>> \/ target = <<>> THEN acc
    ELSE ZipFold(Tail(guess), Tail(target),
                 IF Head(guess) = Head(target) THEN acc + 1 ELSE acc)

\* The HashMap of occurrence counts built by the fold over s.chars().
RECURSIVE CharCounts(_, _)
CharCounts(s, counts) ==
    IF s = <<>> THEN counts
    ELSE LET c == Head(s)
         IN  CharCounts(Tail(s),
                        IF c \in DOMAIN counts
                        THEN [counts EXCEPT ![c] = @ + 1]
                        ELSE [k \in DOMAIN counts \cup {c} |->
                                 IF k = c THEN 1 ELSE counts[k]])

EmptyCounts == [k \in {} |-> 0]

\* The match on gcount.cmp(&tcount) with the arms exchanged.
CountedDigitsLarger(gcount, tcount) == IF gcount < tcount THEN tcount ELSE gcount

\* match gcount.cmp(&tcount) { Less => gcount, _ => tcount }
CountedDigits(gcount, tcount) == IF gcount < tcount THEN gcount ELSE tcount

\* Pass 2 of evaluate_guess: the loop over guess_counts (any order).
RECURSIVE CorrectDigits(_, _, _)
CorrectDigits(keys, guess_counts, target_counts) ==
    IF keys = {} THEN 0
    ELSE LET c == CHOOSE k \in keys : TRUE
         IN  (IF c \in DOMAIN target_counts
              THEN CountedDigits(guess_counts[c], target_counts[c])
              ELSE 0)
             + CorrectDigits(keys \ {c}, guess_counts, target_counts)

evaluate_guess(guess, target) ==
    LET guess_counts == CharCounts(guess, EmptyCounts)
        target_counts == CharCounts(target, EmptyCounts)
    IN  [correct_digits |-> CorrectDigits(DOMAIN guess_counts, guess_counts, target_counts),
         correct_positions |-> ZipFold(guess, target, 0)]

\* The lines typed at the guess prompt: every 4-digit code, and lines that
\* are not 4-digit numbers.
GuessLines ==
    {guess \o <<"\n">> : guess \in Codes(CODE_LENGTH)}
    \cup { <<"\n">>,
           <<"1", "2", "0", "\n">>,
           <<"1", "2", "0", "1", "2", "\n">>,
           <<"1", "a", "0", "2", "\n">>,
           <<" ", "1", "2", "\n">>,
           <<"U+00BD", "U+00BD", "\n">>,
           <<"U+00BD", "1", "2", "\n">> }

\* The test of prompt_user_for_guess: TRUE when the line is accepted.
GuessIsAccepted(line, num_digits) ==
    LET has_invalid_digit_count == ByteLen(Trim(line)) # num_digits
        has_non_numeric_chars == ~(\A i \in 1..Len(Trim(line)) : IsNumericChar(Trim(line)[i]))
    IN  ~(has_invalid_digit_count \/ has_non_numeric_chars)

\* A guess in the sense of the game: four decimal digits.
IsFourDigitNumber(s) ==
    Len(s) = 4 /\ \A i \in 1..Len(s) : s[i] \in Range(DecimalDigits)

\* main after generate_code.  attempts counts the passes of the for loop
\* begun; four_digits and matched describe the last line typed.
InitMastermind ==
    /\ pc = "c26_prompt"
    /\ \E target \in Codes(CODE_LENGTH) :
          locals = [prog |-> "c26", target |-> target, attempts |-> 0,
                    four_digits |-> FALSE, matched |-> FALSE]
    /\ outcome = "none"
    /\ BlackjackIdle

\* prompt_user_for_guess reads a line it does not accept and asks again.
MastermindInvalidInput ==
    /\ pc = "c26_prompt"
    /\ \E line \in GuessLines :
          /\ ~GuessIsAccepted(line, CODE_LENGTH)
          /\ locals' = [locals EXCEPT !.four_digits = IsFourDigitNumber(Trim(line)),
                                      !.matched = (Trim(line) = locals.target)]
    /\ UNCHANGED <<pc, outcome, blackjack>>

\* One pass of the for loop with the accepted guess: evaluate_guess, the
\* congratulation and break, or the feedback and the next pass.
MastermindGuess ==
    /\ pc = "c26_prompt"
    /\ \E line \in GuessLines :
          /\ GuessIsAccepted(line, CODE_LENGTH)
          /\ LET guess == Trim(line)
                 stats == evaluate_guess(guess, locals.target)
             IN  /\ locals' = [locals EXCEPT !.attempts = @ + 1,
                                             !.four_digits = IsFourDigitNumber(guess),
                                             !.matched = (guess = locals.target)]
                 /\ pc' = IF stats.correct_positions = CODE_LENGTH THEN "c26_won"
                          ELSE IF locals.attempts + 1 < MAX_GUESSES THEN "c26_prompt"
                          ELSE "c26_over"
    /\ UNCHANGED <<outcome, blackjack>>

NextMastermind == MastermindInvalidInput \/ MastermindGuess

SpecMastermind == InitMastermind /\ [][NextMastermind]_vars

\* C18: at most 12 guesses are accepted; the game ends with the
\* congratulation at the first guess equal to the code, otherwise after the
\* 12th guess; an input that is not a 4-digit number is asked again and
\* consumes no attempt; nothing is accepted after a correct guess.
C18_TwelveValidGuesses ==
    [][/\ pc = "c26_prompt"
       /\ locals.attempts < MAX_GUESSES
       /\ IF locals'.four_digits
          THEN /\ locals'.attempts = locals.attempts + 1
               /\ pc' = IF locals'.matched THEN "c26_won"
                        ELSE IF locals'.attempts = MAX_GUESSES THEN "c26_over"
                        ELSE "c26_prompt"
          ELSE /\ locals'.attempts = locals.attempts
               /\ pc' = "c26_prompt"]_vars

\* The part of C18 that holds: whatever is accepted, the 12th accepted guess
\* or the first matching one ends the game.
C18_AcceptedGuessesAreCounted ==
    [][/\ pc = "c26_prompt"
       /\ locals.attempts < MAX_GUESSES
       /\ locals'.attempts \in {locals.attempts, locals.attempts + 1}
       /\ locals'.four_digits => locals'.attempts = locals.attempts + 1
       /\ (pc' = "c26_won") <=> locals'.matched
       /\ (pc' = "c26_over") <=>
             (~locals'.matched /\ locals'.attempts = MAX_GUESSES)]_vars

(***************************************************************************)
(* SpecEvalGuess: evaluate_guess applied to pairs of digit strings of      *)
(* equal length.                                                           *)
(***************************************************************************)
InitEvalGuess ==
    /\ pc = "c26_call"
    /\ \E n \in 0..MaxCodeLen :
          \E guess \in Codes(n), target \in Codes(n) :
             locals = [prog |-> "c26_evaluate_guess", guess |-> guess, target |-> target,
                       stats |-> [correct_digits |-> 0, correct_positions |-> 0],
                       swapped |-> [correct_digits |-> 0, correct_positions |-> 0]]
    /\ outcome = "none"
    /\ BlackjackIdle

\* evaluate_guess(guess, target), and the call with the arguments swapped.
EvalGuessCall ==
    /\ pc = "c26_call"
    /\ locals' = [locals EXCEPT !.stats = evaluate_guess(locals.guess, locals.target),
                                !.swapped = evaluate_guess(locals.target, locals.guess)]
    /\ pc' = "c26_returned"
    /\ UNCHANGED <<outcome, blackjack>>

NextEvalGuess == EvalGuessCall

SpecEvalGuess == InitEvalGuess /\ [][NextEvalGuess]_vars

Occurrences(d, s) == Cardinality({i \in 1..Len(s) : s[i] = d})

RECURSIVE SumOfMinOccurrences(_, _, _)
SumOfMinOccurrences(n, guess, target) ==
    IF n = 0 THEN 0
    ELSE LET og == Occurrences(DecimalDigits[n], guess)
             ot == Occurrences(DecimalDigits[n], target)
         IN  (IF og <= ot THEN og ELSE ot) + SumOfMinOccurrences(n - 1, guess, target)

\* C19: for equal-length digit strings, correct_positions is the number of
\* indices where guess and target agree, correct_digits is the sum over the
\* digits of the smaller of the two occurrence counts; hence
\* correct_positions <= correct_digits <= length, and swapping guess and
\* target gives the same result.
C19_EvaluateGuessCounts ==
    pc = "c26_returned" =>
        LET guess == locals.guess
            target == locals.target
            stats == locals.stats
        IN  /\ stats.correct_positions =
                  Cardinality({i \in 1..Len(guess) : guess[i] = target[i]})
            /\ stats.correct_digits = SumOfMinOccurrences(10, guess, target)
            /\ stats.correct_positions <= stats.correct_digits
            /\ stats.correct_digits <= Len(guess)
            /\ locals.swapped = stats

C19_Witness ==
    /\ pc = "c26_returned"
    /\ locals.guess = <<"1", "1", "2">>
    /\ locals.target = <<"1", "2", "1">>
    /\ locals.stats = [correct_digits |-> 3, correct_positions |-> 1]

(***************************************************************************)
(* Hangman (challenges/c27).  target_word is a sequence of chars;          *)
(* player_word is kept as its UTF-8 bytes, a byte being <<char, k>>, the   *)
(* k-th byte of that char, because replace_range works on byte offsets.    *)
(***************************************************************************)
MaxWordLen == 3

NUM_LIVES == 5

LowerLetters == <<"a", "b", "z", "U+00E9">>
UpperLetters == <<"A", "B", "Z", "U+00C9">>

\* char::is_alphabetic on the chars typed.
IsAlphabetic(c) == c \in Range(LowerLetters) \cup Range(UpperLetters)

\* char::to_uppercase on the chars typed.
ToUppercaseChar(c) ==
    IF \E i \in 1..Len(LowerLetters) : LowerLetters[i] = c
    THEN UpperLetters[CHOOSE i \in 1..Len(LowerLetters) : LowerLetters[i] = c]
    ELSE c

ToUppercase(s) == [i \in 1..Len(s) |-> ToUppercaseChar(s[i])]

\* The UTF-8 bytes of a char, and of a string.
Utf8Bytes(c) == [k \in 1..Utf8Len(c) |-> <<c, k>>]

RECURSIVE StrBytes(_)
StrBytes(s) == IF s = <<>> THEN <<>> ELSE Utf8Bytes(Head(s)) \o StrBytes(Tail(s))

Star == <<"*", 1>>

\* "*".repeat(n)
Stars(n) == [i \in 1..n |-> Star]

\* str::is_char_boundary for the byte offset index (from 0).
IsCharBoundary(bytes, index) ==
    \/ index = 0
    \/ index = Len(bytes)
    \/ index < Len(bytes) /\ bytes[index + 1][2] = 1

\* String::replace_range(i..i + 1, &letter.to_string()): a panic when an end
\* of the range is out of bounds or not a char boundary.
ReplaceRange(bytes, i, letter) ==
    IF i + 1 > Len(bytes) \/ ~IsCharBoundary(bytes, i) \/ ~IsCharBoundary(bytes, i + 1)
    THEN [panic |-> TRUE, word |-> bytes]
    ELSE [panic |-> FALSE,
          word |-> SubSeq(bytes, 1, i) \o Utf8Bytes(letter) \o SubSeq(bytes, i + 2, Len(bytes))]

\* update_player_word from the char with index i (from 0) on.
RECURSIVE UpdateFrom(_, _, _, _)
UpdateFrom(target_word, guess_letter, player_word, i) ==
    IF i >= Len(target_word) THEN [panic |-> FALSE, word |-> player_word]
    ELSE IF target_word[i + 1] = guess_letter
    THEN LET replaced == ReplaceRange(player_word, i, guess_letter)
         IN  IF replaced.panic THEN replaced
             ELSE UpdateFrom(target_word, guess_letter, replaced.word, i + 1)
    ELSE UpdateFrom(target_word, guess_letter, player_word, i + 1)

update_player_word(target_word, guess_letter, player_word) ==
    UpdateFrom(target_word, guess_letter, player_word, 0)

\* The words Player 1 types, before trim and to_uppercase.
TypedWords ==
    UNION {[1..n -> {"a", "B", "U+00E9"}] : n \in 0..MaxWordLen}

\* The lines typed at the letter prompt.
LetterLines ==
    { <<"a", "\n">>, <<"B", "\n">>, <<"z", "\n">>, <<"U+00E9", "\n">>,
      <<" ", "b", "a", "\n">>, <<"1", "\n">>, <<"\n">> }

\* prompt_for_letter's match: <<>> when the line is refused, else <<letter>>.
LetterOf(line) ==
    IF Trim(line) # <<>> /\ IsAlphabetic(Trim(line)[1])
    THEN <<ToUppercaseChar(Trim(line)[1])>>
    ELSE <<>>

\* lives -= 1 left out.
LivesAfterMissUnchanged(lives) == lives

\* lives -= 1
LivesAfterMiss(lives) == lives - 1

\* main up to the first letter prompt.  guessed, misses and accepted record
\* the letters guessed, the number of guesses of a letter that does not
\* occur in the target word, and whether the last line was taken as a guess.
InitHangman ==
    /\ pc = "c27_guess"
    /\ \E word \in TypedWords :
          LET target_word == ToUppercase(Trim(word))
          IN  locals = [prog |-> "c27", target_word |-> target_word,
                        player_word |-> Stars(ByteLen(target_word)),
                        lives |-> NUM_LIVES, guessed |-> {}, misses |-> 0,
                        accepted |-> FALSE]
    /\ outcome = "none"
    /\ BlackjackIdle

\* prompt_for_letter reads a line that does not start with a letter and asks
\* again.
HangmanInvalidLetter ==
    /\ pc = "c27_guess"
    /\ \E line \in LetterLines :
          /\ LetterOf(line) = <<>>
          /\ locals' = [locals EXCEPT !.accepted = FALSE]
    /\ UNCHANGED <<pc, outcome, blackjack>>

\* One pass of `while lives > 0` with the letter read: the life lost or the
\* word updated, then the test for the win, the loss, or the next prompt.
HangmanGuess ==
    /\ pc = "c27_guess"
    /\ locals.lives > 0
    /\ \E line \in LetterLines :
          /\ LetterOf(line) # <<>>
          /\ LET letter == LetterOf(line)[1]
                 found == letter \in Range(locals.target_word)
                 lives == IF found THEN locals.lives ELSE LivesAfterMiss(locals.lives)
                 updated == IF found
                            THEN update_player_word(locals.target_word, letter,
                                                    locals.player_word)
                            ELSE [panic |-> FALSE, word |-> locals.player_word]
                 misses == locals.misses +
                           (IF \E i \in 1..Len(locals.target_word) :
                                  locals.target_word[i] = letter THEN 0 ELSE 1)
             IN  /\ locals' = [locals EXCEPT !.lives = lives,
                                             !.player_word = updated.word,
                                             !.guessed = @ \cup {letter},
                                             !.misses = misses,
                                             !.accepted = TRUE]
                 /\ pc' = IF updated.panic THEN "c27_panicked"
                          ELSE IF Star \notin Range(updated.word) THEN "c27_won"
                          ELSE IF lives = 0 THEN "c27_lost"
                          ELSE "c27_guess"
    /\ UNCHANGED <<outcome, blackjack>>

NextHangman == HangmanInvalidLetter \/ HangmanGuess

SpecHangman == InitHangman /\ [][NextHangman]_vars

\* C20: the player starts with 5 lives; a guess of a letter that does not
\* occur in the target word costs exactly one life and a guess of a letter
\* that occurs costs none; a win is declared only once every letter of the
\* target word has been guessed; a loss is declared exactly when the fifth
\* incorrect guess is made before that.
C20_HangmanLives ==
    [][/\ locals.prog = "c27"
       /\ locals.lives = 5 - locals.misses
       /\ locals'.accepted =>
             /\ locals'.misses = locals.misses + 1 => locals'.lives = locals.lives - 1
             /\ locals'.misses = locals.misses => locals'.lives = locals.lives
       /\ ~locals'.accepted => (locals'.lives = locals.lives /\ pc' = pc)
       /\ pc' = "c27_won" => Range(locals.target_word) \subseteq locals'.guessed
       /\ (pc' = "c27_lost") <=>
             (locals'.misses = 5 /\ locals.misses = 4 /\ pc' # "c27_won")]_vars

C20_Witness ==
    /\ pc = "c27_lost"
    /\ locals.misses = 5
    /\ locals.lives = 0
    /\ locals.guessed = {"A", "Z"}
    /\ locals.target_word = <<"A", "B">>

C20_WitnessWon ==
    /\ pc = "c27_won"
    /\ locals.lives = 1
    /\ locals.target_word = <<"A", "B", "A">>

(***************************************************************************)
(* SpecUpdateWord: update_player_word applied to a target word, a letter   *)
(* and a player word of the same length that shows, at each position, '*'  *)
(* or the target's char.                                                   *)
(***************************************************************************)
WordChars == {"A", "B", "a", "U+00C9"}

\* The player words for a target: each position masked or revealed.
PlayerWords(target_word) ==
    {[i \in 1..Len(target_word) |-> IF i \in revealed THEN target_word[i] ELSE "*"] :
        revealed \in SUBSET (1..Len(target_word))}

InitUpdateWord ==
    /\ pc = "c27_call"
    /\ \E n \in 0..MaxWordLen :
          \E target_word \in [1..n -> WordChars], guess_letter \in WordChars :
             \E before \in PlayerWords(target_word) :
                locals = [prog |-> "c27_update_player_word",
                          target_word |-> target_word,
                          guess_letter |-> guess_letter,
                          before |-> before,
                          player_word |-> StrBytes(before),
                          panic |-> FALSE]
    /\ outcome = "none"
    /\ BlackjackIdle

\* update_player_word(target_word, guess_letter, &mut player_word)
UpdateWordCall ==
    /\ pc = "c27_call"
    /\ LET updated == update_player_word(locals.target_word, locals.guess_letter,
                                         locals.player_word)
       IN  /\ locals' = [locals EXCEPT !.player_word = updated.word,
                                       !.panic = updated.panic]
           /\ pc' = IF updated.panic THEN "c27_panicked" ELSE "c27_returned"
    /\ UNCHANGED <<outcome, blackjack>>

NextUpdateWord == UpdateWordCall

SpecUpdateWord == InitUpdateWord /\ [][NextUpdateWord]_vars

\* C21: for a target word and a player word of the same length,
\* update_player_word sets every position where the target holds exactly
\* that letter to the letter and leaves every other position unchanged, so
\* every position of the player word is '*' or the target's char.
C21_UpdateSetsMatchingPositions ==
    pc # "c27_call" =>
        LET target_word == locals.target_word
            expected == [i \in 1..Len(target_word) |->
                            IF target_word[i] = locals.guess_letter
                            THEN locals.guess_letter
                            ELSE locals.before[i]]
        IN  /\ pc = "c27_returned"
            /\ locals.player_word = StrBytes(expected)
            /\ \A i \in 1..Len(expected) : expected[i] \in {"*", target_word[i]}

\* The part of C21 that holds: words of one-byte chars only.
C21_UpdateOnAsciiWords ==
    (pc # "c27_call" /\ \A i \in 1..Len(locals.target_word) :
                            Utf8Len(locals.target_word[i]) = 1) =>
        /\ pc = "c27_returned"
        /\ locals.player_word =
              StrBytes([i \in 1..Len(locals.target_word) |->
                           IF locals.target_word[i] = locals.guess_letter
                           THEN locals.guess_letter
                           ELSE locals.before[i]])

(***************************************************************************)
(* SpecTracker: the sports results tracker alone (challenges/c24).         *)
(***************************************************************************)
InitTrackerAlone ==
    /\ InitTracker
    /\ outcome = "none"
    /\ BlackjackIdle

NextTracker == TrackerInvalidMenu \/ TrackerAdd \/ TrackerSearch

SpecTracker == InitTrackerAlone /\ [][NextTracker]_vars

\* The results among the first n stored whose home or away team is the query,
\* in the order they were added.
RECURSIVE ResultsOfTeam(_, _, _)
ResultsOfTeam(results, n, query) ==
    IF n = 0 THEN <<>>
    ELSE LET r == results[n]
             earlier == ResultsOfTeam(results, n - 1, query)
         IN  IF query \in {r.home_team, r.away_team} THEN Append(earlier, r) ELSE earlier

\* C22: a Search lists exactly the stored results whose home or away team
\* equals the query, in the order they were added, and never changes the
\* stored results; the stored results grow only by a successful Add, one
\* result at the end; an Add with an unparsable score stores nothing.
C22_SearchListsAddedResults ==
    [][pc = "c24_menu" =>
          LET results == locals.results
              after == locals'.results
          IN  CASE locals'.query # "" ->
                     /\ after = results
                     /\ locals'.shown = ResultsOfTeam(results, Len(results), locals'.query)
                [] locals'.query = "" /\ locals'.malformed ->
                     after = results
                [] OTHER ->
                     /\ Len(after) = Len(results) + 1
                     /\ SubSeq(after, 1, Len(results)) = results
                     /\ after[Len(after)].home_score >= 0
                     /\ after[Len(after)].away_score >= 0]_vars

C22_Witness ==
    /\ Len(locals.results) = 2
    /\ locals.results[1].away_team = "Boca"
    /\ locals.results[2].home_team = "Boca"
    /\ locals.results[1].home_team = "Ajax"
    /\ locals.query = "Boca"
    /\ locals.shown = locals.results
    /\ locals.iteration > 3

(***************************************************************************)
(* The Fibonacci calculator (challenges/c20).  A u128 is kept as 8 limbs   *)
(* of 16 bits, least significant first; the exact Fibonacci numbers are    *)
(* limb sequences of any length.                                           *)
(***************************************************************************)
U8_MAX == 255
LimbBase == 65536
U128Limbs == 8

\* The sum of two limb sequences with a carry, as a limb sequence one longer
\* than the longer of the two.
RECURSIVE LimbAdd(_, _, _)
LimbAdd(x, y, carry) ==
    IF x = <<>> /\ y = <<>> THEN <<carry>>
    ELSE LET xd == IF x = <<>> THEN 0 ELSE Head(x)
             yd == IF y = <<>> THEN 0 ELSE Head(y)
             sum == xd + yd + carry
         IN  <<sum % LimbBase>> \o
             LimbAdd(IF x = <<>> THEN <<>> ELSE Tail(x),
                     IF y = <<>> THEN <<>> ELSE Tail(y),
                     sum \div LimbBase)

U128(k) == [i \in 1..U128Limbs |-> IF i = 1 THEN k ELSE 0]

\* a + b on u128: the low 128 bits, and whether the sum did not fit.
U128Add(a, b) ==
    LET sum == LimbAdd(a, b, 0)
    IN  [value |-> SubSeq(sum, 1, U128Limbs), overflow |-> sum[U128Limbs + 1] # 0]

\* A limb sequence without its leading zero limbs.
RECURSIVE Normal(_)
Normal(x) ==
    IF x # <<>> /\ x[Len(x)] = 0 THEN Normal(SubSeq(x, 1, Len(x) - 1)) ELSE x

\* main after prompt_for_index, which returns any u8.  expected is the exact
\* Fibonacci number of the index reached so far, from F(0) = 0, F(1) = 1,
\* F(n) = F(n - 1) + F(n - 2); before is the one before it.
InitFib ==
    /\ pc = "c20_call"
    /\ \E n \in 0..U8_MAX :
          locals = [prog |-> "c20", n |-> n, a |-> U128(0), b |-> U128(0),
                    c |-> U128(0), i |-> 0, value |-> U128(0),
                    before |-> <<>>, expected |-> <<>>]
    /\ outcome = "none"
    /\ BlackjackIdle

\* fib(n) up to the loop: the two early returns, or a = 0, b = 1, c = 0.
FibCall ==
    /\ pc = "c20_call"
    /\ IF locals.n = 0
       THEN /\ locals' = [locals EXCEPT !.value = U128(0), !.expected = <<>>]
            /\ pc' = "c20_returned"
       ELSE IF locals.n = 1
       THEN /\ locals' = [locals EXCEPT !.value = U128(1), !.expected = <<1>>]
            /\ pc' = "c20_returned"
       ELSE /\ locals' = [locals EXCEPT !.a = U128(0), !.b = U128(1), !.c = U128(0),
                                        !.i = 2, !.before = <<>>, !.expected = <<1>>]
            /\ pc' = "c20_loop"
    /\ UNCHANGED <<outcome, blackjack>>

\* One pass of (2..=n).for_each(|_| { c = a + b; a = b; b = c; }), and the
\* return of c after the last.  An addition that overflows panics in a build
\* with overflow checks and wraps in a build without.
FibPass ==
    /\ pc = "c20_loop"
    /\ LET sum == U128Add(locals.a, locals.b)
           passed == [locals EXCEPT
                         !.c = sum.value, !.a = locals.b, !.b = sum.value,
                         !.i = @ + 1,
                         !.before = locals.expected,
                         !.expected = Normal(LimbAdd(locals.before, locals.expected, 0))]
       IN  \/ /\ sum.overflow
              /\ pc' = "c20_panicked"
              /\ locals' = locals
           \/ /\ locals' = IF locals.i = locals.n
                           THEN [passed EXCEPT !.value = sum.value]
                           ELSE passed
              /\ pc' = IF locals.i = locals.n THEN "c20_returned" ELSE "c20_loop"
    /\ UNCHANGED <<outcome, blackjack>>

NextFib == FibCall \/ FibPass

SpecFib == InitFib /\ [][NextFib]_vars

\* C23: for every index the program accepts (any u8), fib(n) returns the
\* n-th Fibonacci number, with no u128 overflow or panic.
C23_FibIsTotal ==
    /\ pc # "c20_panicked"
    /\ pc = "c20_returned" => Normal(locals.value) = locals.expected

\* The part of C23 that holds: the indices up to 186.
C23_FibUpTo186 ==
    locals.n <= 186 =>
        /\ pc # "c20_panicked"
        /\ pc = "c20_returned" => Normal(locals.value) = locals.expected

\* The unit test's value: F(50) = 12586269025 = 2 * 65536^2 + 60979 * 65536 + 14689
C23_FibOfFifty ==
    (pc = "c20_returned" /\ locals.n = 50) =>
        locals.value = <<14689, 60979, 2, 0, 0, 0, 0, 0>>

(***************************************************************************)
(* The final pass of Hand::evaluate (SpecEval).                            *)
(***************************************************************************)
\* C24: the final pass subtracts 10 only for an Ace that the second pass
\* counted as 11: for every hand the returned score is never lower than the
\* total with every Ace counted as 1.
C24_ScoreNotBelowHardTotal ==
    Evaluated => score[1] >= HardTotal(player_hand)

====
